---- MODULE Spec2Model ----
(***************************************************************************)
(* Model of services/geminiService.ts: analyzeImageWithGemini, the meal    *)
(* photo analysis and result-extraction flow.                              *)
(*                                                                         *)
(* A JavaScript string is a sequence of tokens.  A token is one character  *)
(* wherever the code looks at characters (braces, quotes, backticks,       *)
(* digits, white space, the letters of "json"); a longer token such as     *)
(* "Apple" stands for a run of letters none of which the code inspects.    *)
(* A JavaScript value is a record [t |-> type tag, v |-> payload].         *)
(***************************************************************************)
EXTENDS Integers, Sequences, FiniteSets, TLC

\* ------------------------------------------------------------------ bounds
\* Every text of at most MaxTextLen characters over Alphabet is a possible
\* upstream reply.
MaxTextLen == 3

\* ------------------------------------------------------------ JS values
Undefined == [t |-> "undefined", v |-> <<>>]
Null == [t |-> "null", v |-> <<>>]
Str(s) == [t |-> "string", v |-> s]
Num(n) == [t |-> "number", v |-> n]
Obj(f) == [t |-> "object", v |-> f]
Arr(s) == [t |-> "array", v |-> s]

\* JavaScript truthiness, as used by || and !.
Truthy(x) ==
  CASE x.t = "undefined" -> FALSE
    [] x.t = "null" -> FALSE
    [] x.t = "string" -> Len(x.v) > 0
    [] x.t = "number" -> x.v # 0
    [] OTHER -> TRUE

\* a || b
OrElse(a, b) == IF Truthy(a) THEN a ELSE b

\* o.k : property read on a value that is neither null nor undefined.
GetProp(o, k) ==
  IF o.t = "object" /\ k \in DOMAIN o.v THEN o.v[k] ELSE Undefined

\* o?.k
OptProp(o, k) ==
  IF o.t \in {"undefined", "null"} THEN Undefined ELSE GetProp(o, k)

\* o?.[0]
OptFirst(o) ==
  CASE o.t = "array" /\ Len(o.v) > 0 -> o.v[1]
    [] o.t = "string" /\ Len(o.v) > 0 -> Str(<<o.v[1]>>)
    [] OTHER -> Undefined

\* ----------------------------------------------------------- JS strings
WhiteSpace == {" ", "\n"}
Digits == {"0", "1", "2", "3", "4", "5", "6", "7", "8", "9"}

DigitValue(c) ==
  CASE c = "0" -> 0 [] c = "1" -> 1 [] c = "2" -> 2 [] c = "3" -> 3
    [] c = "4" -> 4 [] c = "5" -> 5 [] c = "6" -> 6 [] c = "7" -> 7
    [] c = "8" -> 8 [] c = "9" -> 9

Min(a, b) == IF a < b THEN a ELSE b
Max(a, b) == IF a > b THEN a ELSE b

\* s.startsWith(p, i), i counted from 1
MatchesAt(s, p, i) ==
  /\ i + Len(p) - 1 <= Len(s)
  /\ \A k \in 1..Len(p) : s[i + k - 1] = p[k]

\* The character U+0060 cannot be written in a TLA+ string: BT is its token.
BT == "U+0060"

FenceJson == <<BT, BT, BT, "j", "s", "o", "n">>
Fence == <<BT, BT, BT>>

\* text.replace(/(fence)json|(fence)/g, "") : one left-to-right pass, the first
\* alternative preferred, the scan resuming after each match.
RECURSIVE StripFrom(_, _)
StripFrom(s, i) ==
  IF i > Len(s) THEN <<>>
  ELSE IF MatchesAt(s, FenceJson, i) THEN StripFrom(s, i + Len(FenceJson))
  ELSE IF MatchesAt(s, Fence, i) THEN StripFrom(s, i + Len(Fence))
  ELSE <<s[i]>> \o StripFrom(s, i + 1)

StripFences(s) == StripFrom(s, 1)

RECURSIVE TrimStart(_)
TrimStart(s) ==
  IF Len(s) > 0 /\ s[1] \in WhiteSpace THEN TrimStart(Tail(s)) ELSE s

RECURSIVE TrimEnd(_)
TrimEnd(s) ==
  IF Len(s) > 0 /\ s[Len(s)] \in WhiteSpace
  THEN TrimEnd(SubSeq(s, 1, Len(s) - 1)) ELSE s

\* s.trim()
Trim(s) == TrimEnd(TrimStart(s))

\* s.indexOf(c) : 0-based, -1 when absent
IndexOf(s, c) ==
  IF \E i \in 1..Len(s) : s[i] = c
  THEN (CHOOSE i \in 1..Len(s) : s[i] = c /\ \A j \in 1..(i - 1) : s[j] # c) - 1
  ELSE -1

\* s.lastIndexOf(c) : 0-based, -1 when absent
LastIndexOf(s, c) ==
  IF \E i \in 1..Len(s) : s[i] = c
  THEN (CHOOSE i \in 1..Len(s) : s[i] = c /\ \A j \in (i + 1)..Len(s) : s[j] # c) - 1
  ELSE -1

\* s.substring(a, b) : both indices clamped to [0, length], swapped when a > b
Substring(s, a, b) ==
  LET ca == Min(Max(a, 0), Len(s))
      cb == Min(Max(b, 0), Len(s))
  IN SubSeq(s, Min(ca, cb) + 1, Max(ca, cb))

\* ----------------------------------------------------------- JSON.parse
\* The grammar of JSON restricted to texts without backslash, brackets,
\* sign, fraction or exponent, and without the literals true/false/null:
\* objects, strings and non-negative integers.  A parse result is
\* [ok, val, pos] with pos the index after the value.
ParseFail == [ok |-> FALSE, val |-> Undefined, pos |-> 0]

RECURSIVE SkipWs(_, _)
SkipWs(s, i) ==
  IF i <= Len(s) /\ s[i] \in WhiteSpace THEN SkipWs(s, i + 1) ELSE i

\* s[i] is the opening quote; control characters may not occur in a string.
ParseString(s, i) ==
  IF \E j \in (i + 1)..Len(s) : s[j] = "\""
  THEN LET j == CHOOSE j \in (i + 1)..Len(s) :
                  s[j] = "\"" /\ \A k \in (i + 1)..(j - 1) : s[k] # "\""
       IN IF \E k \in (i + 1)..(j - 1) : s[k] = "\n"
          THEN ParseFail
          ELSE [ok |-> TRUE, val |-> Str(SubSeq(s, i + 1, j - 1)), pos |-> j + 1]
  ELSE ParseFail

RECURSIVE ParseDigits(_, _, _)
ParseDigits(s, i, acc) ==
  IF i <= Len(s) /\ s[i] \in Digits
  THEN ParseDigits(s, i + 1, 10 * acc + DigitValue(s[i]))
  ELSE [ok |-> TRUE, val |-> Num(acc), pos |-> i]

\* s[i] is a digit; a leading zero ends the number.
ParseNumber(s, i) ==
  IF s[i] = "0" THEN [ok |-> TRUE, val |-> Num(0), pos |-> i + 1]
  ELSE ParseDigits(s, i, 0)

RECURSIVE ParseValue(_, _)
RECURSIVE ParseMembers(_, _, _)

\* s[i] is the opening brace.
ParseObject(s, i) ==
  LET j == SkipWs(s, i + 1)
  IN IF j <= Len(s) /\ s[j] = "}"
     THEN [ok |-> TRUE, val |-> Obj(<<>>), pos |-> j + 1]
     ELSE ParseMembers(s, j, <<>>)

\* i is the index where a member name must start; acc the members so far.
\* A repeated name keeps the last value.
ParseMembers(s, i, acc) ==
  IF ~(i <= Len(s) /\ s[i] = "\"") THEN ParseFail
  ELSE LET k == ParseString(s, i)
       IN IF ~k.ok THEN ParseFail
          ELSE LET c == SkipWs(s, k.pos)
               IN IF ~(c <= Len(s) /\ s[c] = ":") THEN ParseFail
                  ELSE LET m == ParseValue(s, c + 1)
                       IN IF ~m.ok THEN ParseFail
                          ELSE LET e == SkipWs(s, m.pos)
                                   acc2 == (k.val.v :> m.val) @@ acc
                               IN IF e > Len(s) THEN ParseFail
                                  ELSE IF s[e] = "}"
                                  THEN [ok |-> TRUE, val |-> Obj(acc2), pos |-> e + 1]
                                  ELSE IF s[e] = ","
                                  THEN ParseMembers(s, SkipWs(s, e + 1), acc2)
                                  ELSE ParseFail

ParseValue(s, i) ==
  LET j == SkipWs(s, i)
  IN IF j > Len(s) THEN ParseFail
     ELSE IF s[j] = "{" THEN ParseObject(s, j)
     ELSE IF s[j] = "\"" THEN ParseString(s, j)
     ELSE IF s[j] \in Digits THEN ParseNumber(s, j)
     ELSE ParseFail

\* JSON.parse(s) : [ok |-> FALSE] stands for the SyntaxError it throws.
JSONParse(s) ==
  LET r == ParseValue(s, 1)
  IN IF r.ok /\ SkipWs(s, r.pos) = Len(s) + 1 THEN r ELSE ParseFail

\* ------------------------------------------------------ File.base64()
B64 ==
  << "A", "B", "C", "D", "E", "F", "G", "H", "I", "J", "K", "L", "M",
     "N", "O", "P", "Q", "R", "S", "T", "U", "V", "W", "X", "Y", "Z",
     "a", "b", "c", "d", "e", "f", "g", "h", "i", "j", "k", "l", "m",
     "n", "o", "p", "q", "r", "s", "t", "u", "v", "w", "x", "y", "z",
     "0", "1", "2", "3", "4", "5", "6", "7", "8", "9", "+", "/" >>

\* RFC 4648 base64 of a sequence of bytes, as a JS string.
RECURSIVE Base64(_)
Base64(b) ==
  IF Len(b) = 0 THEN <<>>
  ELSE IF Len(b) = 1
  THEN << B64[(b[1] \div 4) + 1], B64[((b[1] % 4) * 16) + 1], "=", "=" >>
  ELSE IF Len(b) = 2
  THEN << B64[(b[1] \div 4) + 1],
          B64[((b[1] % 4) * 16) + (b[2] \div 16) + 1],
          B64[((b[2] % 16) * 4) + 1], "=" >>
  ELSE << B64[(b[1] \div 4) + 1],
          B64[((b[1] % 4) * 16) + (b[2] \div 16) + 1],
          B64[((b[2] % 16) * 4) + (b[3] \div 64) + 1],
          B64[(b[3] % 64) + 1] >> \o Base64(SubSeq(b, 4, Len(b)))

\* ---------------------------------------------------------- environment
\* The local files: uri |-> bytes.  A uri outside the domain cannot be read.
FileSystem ==
  ("file:///meal.jpg" :> <<77, 97, 110>>) @@ ("file:///snack.png" :> <<255, 216>>)

Uris == DOMAIN FileSystem \cup {"file:///missing.jpg"}

\* What a caller may pass as mimeType; Undefined is an omitted argument.
MimeArgs ==
  { Undefined, Str(<<"image/jpeg">>), Str(<<"image/png">>), Str(<<"image/webp">>),
    Str(<<"image/heic">>), Str(<<"image/heif">>), Str(<<"image/gif">>),
    Str(<<"IMAGE/JPEG">>) }

\* ------------------------------------------------------------ the module
supportedMimeTypes ==
  << <<"image/jpeg">>, <<"image/png">>, <<"image/webp">>, <<"image/heic">>,
     <<"image/heif">> >>

\* supportedMimeTypes.includes(mimeType)
Includes(arr, x) == \E i \in 1..Len(arr) : arr[i] = x

\* Mutant of DefaultMimeType: another default.
DefaultMimeType_Png == Str(<<"image/png">>)

DefaultMimeType == Str(<<"image/jpeg">>)

\* A default parameter value replaces an argument that is undefined.
DefaultParam(arg, dflt) == IF arg.t = "undefined" THEN dflt ELSE arg

\* The prompt: its instruction sentence and the keys of the JSON structure
\* it shows, in order.
MealRecognitionPrompt ==
  [ instruction |->
      "You are a meal recognition AI. Identify the food in this image and return ONLY a JSON object with the following structure:",
    structure |->
      << "meal_name", "description", "calories", "protein_g", "carbs_g", "fat_g" >> ]

\* The body of the POST request.
RequestBody(mime, b64) ==
  [ contents |->
      << [ parts |->
             << [ text |-> MealRecognitionPrompt ],
                [ inline_data |-> [ mime_type |-> mime, data |-> b64 ] ] >> ] >> ]

\* ----------------------------------------------------- thrown failures
\* An Error object.  kind names the throw site: the four failures of the
\* taxonomy, or the library failure that the function lets through.
Err(kind, message) == [t |-> "error", v |-> [kind |-> kind, message |-> message]]

Taxonomy == {"UnsupportedFormat", "UpstreamError", "EmptyResponse", "MalformedPayload"}
LibraryFailures == {"FileReadError", "NetworkError", "SyntaxError", "TypeError"}

\* ${x} in a template literal, for a string, undefined or null
TemplateValue(x) ==
  CASE x.t = "string" -> x.v
    [] OTHER -> <<x.t>>

Pending == [kind |-> "pending", value |-> Undefined]
Return(v) == [kind |-> "return", value |-> v]
Throw(e) == [kind |-> "throw", value |-> e]

\* throw new Error(`Unsupported image format: ${mimeType}. Convert to JPEG or PNG.`)
UnsupportedFormat(mime) ==
  Err("UnsupportedFormat",
      <<"Unsupported image format: ">> \o TemplateValue(mime)
        \o <<". Convert to JPEG or PNG.">>)

\* The !response.ok branch, once response.json() has yielded errorData.
UpstreamFailure(errorData, statusText) ==
  IF errorData.t \in {"null", "undefined"}
  THEN Throw(Err("TypeError", <<"Cannot read properties of ">> \o <<errorData.t>>))
  ELSE Throw(Err("UpstreamError",
                 <<"API Error: ">> \o
                 TemplateValue(OrElse(OptProp(GetProp(errorData, <<"error">>), <<"message">>),
                                      statusText))))

\* Mutant of FirstText: the first part that carries a text, wherever it is.
FirstText_AnyPart(data) ==
  LET parts == OptProp(OptProp(OptFirst(OptProp(data, <<"candidates">>)),
                               <<"content">>),
                       <<"parts">>)
  IN IF parts.t = "array" /\ \E i \in 1..Len(parts.v) : Truthy(OptProp(parts.v[i], <<"text">>))
     THEN LET i == CHOOSE i \in 1..Len(parts.v) :
                     /\ Truthy(OptProp(parts.v[i], <<"text">>))
                     /\ \A j \in 1..(i - 1) : ~Truthy(OptProp(parts.v[j], <<"text">>))
          IN OptProp(parts.v[i], <<"text">>)
     ELSE OptProp(OptFirst(parts), <<"text">>)

\* data?.candidates?.[0]?.content?.parts?.[0]?.text
FirstText(data) ==
  OptProp(OptFirst(OptProp(OptProp(OptFirst(OptProp(data, <<"candidates">>)),
                                   <<"content">>),
                           <<"parts">>)),
          <<"text">>)

MalformedPayload ==
  Err("MalformedPayload",
      <<"Received an invalid format from the AI. Response was not a valid JSON object.">>)

\* Mutant of JsonString: the cleaned text is parsed whole, without slicing.
JsonString_NoSlice(text) == Trim(StripFences(text))

\* The slice handed to JSON.parse.
JsonString(text) ==
  LET cleanedText == Trim(StripFences(text))
      jsonStart == IndexOf(cleanedText, "{")
      jsonEnd == LastIndexOf(cleanedText, "}") + 1
  IN Substring(cleanedText, jsonStart, jsonEnd)

\* Mutant of ParseMeal: a parse failure is swallowed and nothing is returned.
ParseMeal_Swallow(text) ==
  IF text.t # "string" THEN Return(Undefined)
  ELSE LET r == JSONParse(JsonString(text.v))
       IN IF r.ok THEN Return(r.val) ELSE Return(Undefined)

\* The inner try/catch: text is truthy.  A text that is not a string has no
\* replace method, and the TypeError is caught like a SyntaxError.
ParseMeal(text) ==
  IF text.t # "string" THEN Throw(MalformedPayload)
  ELSE LET r == JSONParse(JsonString(text.v))
       IN IF r.ok THEN Return(r.val) ELSE Throw(MalformedPayload)

\* The response.ok branch, once response.json() has yielded data.
ExtractResult(data) ==
  LET text == FirstText(data)
  IN IF ~Truthy(text)
     THEN Throw(Err("EmptyResponse", <<"No content returned from Gemini API.">>))
     ELSE ParseMeal(text)

\* ------------------------------------------------- upstream responses
QUOTE == "\""

StrLit(s) == <<QUOTE>> \o s \o <<QUOTE>>

\* The text of a JSON object with the six keys of a record.
MealJson(nameKey, name, description, calories) ==
  <<"{">> \o StrLit(<<nameKey>>) \o <<":">> \o StrLit(name) \o <<",">>
    \o StrLit(<<"description">>) \o <<":">> \o StrLit(description) \o <<",">>
    \o StrLit(<<"calories">>) \o <<":">> \o calories \o <<",">>
    \o StrLit(<<"protein_g">>) \o <<":", "0", ",">>
    \o StrLit(<<"carbs_g">>) \o <<":", "2", "5", ",">>
    \o StrLit(<<"fat_g">>) \o <<":", "0", "}">>

\* JSON object texts a model may answer with.
Payloads ==
  { MealJson("name", <<"Apple">>, <<"A", " ", "fruit">>, <<"9", "5">>),
    MealJson("meal_name", <<"Apple">>, <<"A", " ", "fruit">>, <<"9", "5">>),
    MealJson("meal_name", <<"Pie">>, <<"see", " ", BT, BT, BT, "j", "s", "o", "n">>, <<"0">>),
    MealJson("meal_name", <<"{", "Wrap", "}">>, <<BT, BT, BT, BT>>, <<"1", "0">>),
    <<"{", "}">>,
    <<"{">> \o StrLit(<<"meal_name">>) \o <<":", " ">> \o StrLit(<<"Tea">>) \o <<"\n", "}">> }

\* Prose and fences a model may put around its answer.
ProseBefore == { <<>>, <<"Sure!", " ">>, <<"{", "Here", "}", " ">>, <<"1", "}", " ">> }
FenceBefore == { <<>>, FenceJson \o <<"\n">>, Fence }
FenceAfter == { <<>>, <<"\n">> \o Fence }
ProseAfter == { <<>>, <<" ", "Enjoy", "\n">>, <<" ", "{", "}">> }

Noise == ProseBefore \X FenceBefore \X FenceAfter \X ProseAfter

Wrap(p, n) == n[1] \o n[2] \o p \o n[3] \o n[4]

Alphabet == {"{", "}", QUOTE, "1", BT, " "}

ShortTexts == UNION { [1..n -> Alphabet] : n \in 0..MaxTextLen }

Texts == ShortTexts \cup { Wrap(p, n) : p \in Payloads, n \in Noise }

TextPart(s) == Obj(<<"text">> :> s)
ImagePart == Obj(<<"inline_data">> :> Obj(<<>>))
Candidate(parts) == Obj(<<"content">> :> Obj(<<"parts">> :> Arr(parts)))
Envelope(cands) == Obj(<<"candidates">> :> Arr(cands))

NotJson == [t |-> "notjson", v |-> <<>>]

AppleText == MealJson("meal_name", <<"Apple">>, <<"A", " ", "fruit">>, <<"9", "5">>)

\* Bodies of a success response in which the first candidate's first part
\* carries no text.
TextlessBodies ==
  { Null, Num(7), Obj(<<>>),
    Envelope(<<>>),
    Envelope(<<Obj(<<>>)>>),
    Envelope(<<Obj(<<"content">> :> Obj(<<>>))>>),
    Envelope(<<Candidate(<<>>)>>),
    Envelope(<<Candidate(<<ImagePart>>)>>),
    Envelope(<<Candidate(<<TextPart(Str(<<>>))>>)>>),
    Envelope(<<Candidate(<<TextPart(Null)>>)>>),
    Envelope(<<Candidate(<<TextPart(Num(0))>>)>>),
    Envelope(<<Candidate(<<ImagePart, TextPart(Str(AppleText))>>)>>),
    Envelope(<<Candidate(<<>>), Candidate(<<TextPart(Str(AppleText))>>)>>) }

SuccessBodies ==
  {NotJson} \cup TextlessBodies
    \cup { Envelope(<<Candidate(<<TextPart(Str(s))>>)>>) : s \in Texts }
    \cup { Envelope(<<Candidate(<<TextPart(Num(5))>>)>>),
           Envelope(<<Candidate(<<TextPart(Str(AppleText)), TextPart(Str(<<>>))>>),
                      Candidate(<<>>)>>) }

ErrorBodies ==
  { NotJson, Null, Num(7), Obj(<<>>),
    Obj(<<"error">> :> Obj(<<>>)),
    Obj(<<"error">> :> Obj(<<"message">> :> Str(<<>>))),
    Obj(<<"error">> :> Obj(<<"message">> :> Str(<<"quota exceeded">>))) }

StatusTexts == { <<>>, <<"Too Many Requests">> }

Responses ==
  { [ok |-> TRUE, statusText |-> Str(<<"OK">>), body |-> b] : b \in SuccessBodies }
    \cup { [ok |-> FALSE, statusText |-> Str(st), body |-> b] :
             st \in StatusTexts, b \in ErrorBodies }

NoResponse == [ok |-> FALSE, statusText |-> Str(<<>>), body |-> Undefined]

\* ---------------------------------------------------------------- state
VARIABLES
  pc,           \* where the call is: idle, readFile, fetch, errorJson, dataJson, done
  uri,          \* argument uri
  mimeArg,      \* argument mimeType as passed (Undefined when omitted)
  mimeType,     \* parameter mimeType after defaulting
  base64Image,  \* const base64Image
  sent,         \* the requests handed to fetch, in order
  response,     \* const response
  outcome,      \* how the returned promise settled
  log           \* the library calls made, in order

vars == <<pc, uri, mimeArg, mimeType, base64Image, sent, response, outcome, log>>

\* Several calls of analyzeImageWithGemini at once.
VARIABLES
  calls,        \* call |-> its frame: pc, parameters, locals, outcome
  wire          \* the requests handed to fetch by any call, with the reply to each

concVars == <<calls, wire>>

\* The number of concurrent calls.
NumCalls == 2

Calls == 1..NumCalls

IdleFrame ==
  [ pc |-> "idle", uri |-> "", mimeArg |-> Undefined, mimeType |-> Undefined,
    base64Image |-> Undefined, response |-> NoResponse, outcome |-> Pending ]

\* No concurrent call is made.
ConcIdle ==
  /\ calls = [c \in Calls |-> IdleFrame]
  /\ wire = <<>>

\* The MealRecognition screen.
VARIABLES
  imageUri,       \* useState: the image shown, Null when none
  mealResult,     \* useState: the result shown, Null when none
  isLoading,      \* useState
  isCameraActive, \* useState
  alerts,         \* the Alert.alert calls made, in order
  pending,        \* how many handlers wait for each permission, picker or camera promise
  analyses,       \* the handleImageAnalysis calls made, in order, with their state
  presses         \* how many buttons that start a handler were pressed

screenVars ==
  <<imageUri, mealResult, isLoading, isCameraActive, alerts, pending, analyses, presses>>

\* The screen as first rendered.
ScreenIdle ==
  /\ imageUri = Null
  /\ mealResult = Null
  /\ isLoading = FALSE
  /\ isCameraActive = FALSE
  /\ alerts = <<>>
  /\ pending = [pickPerm |-> 0, picker |-> 0, camPerm |-> 0, shots |-> 0]
  /\ analyses = <<>>
  /\ presses = 0

\* The state of everything but the single call, but the concurrent calls,
\* but the screen.
\* ---- RootLayout (src/app/_layout.tsx) with the login and logout handlers ----
VARIABLES
  session,        \* useState: the session RootLayout holds, Null when none
  loading,        \* useState
  pathname,       \* usePathname()
  mounted,        \* the flag of the mount effect's closure
  initPc,         \* where initSession is: idle, getSession, getUser, gotUser, done
  initSessionVal, \* initSession's local session
  initUserOk,     \* initSession's getUser gave a user and no error
  stored,         \* the session the auth client holds
  authEvents,     \* auth state changes not yet delivered to the listener
  emitted,        \* number of auth state changes so far
  lastEvent,      \* the session of the last change delivered to the listener
  effectDue,      \* the routing effect has to run: first render or changed dependency
  nav,            \* target of a router.replace not yet shown by pathname, "" when none
  authErrors      \* failures reported by handleLogin (setError) and handleLogout (console.error)

layoutVars ==
  <<session, loading, pathname, mounted, initPc, initSessionVal, initUserOk,
    stored, authEvents, emitted, lastEvent, effectDue, nav, authErrors>>

\* RootLayout is not rendered.
LayoutIdle ==
  /\ session = Null
  /\ loading = TRUE
  /\ pathname = "/login"
  /\ mounted = FALSE
  /\ initPc = "idle"
  /\ initSessionVal = Null
  /\ initUserOk = FALSE
  /\ stored = Null
  /\ authEvents = <<>>
  /\ emitted = 0
  /\ lastEvent = Undefined
  /\ effectDue = FALSE
  /\ nav = ""
  /\ authErrors = {}

\* ---- ShoppingPlanner (src/unnamed/part_002) and the discovery screen ----
VARIABLES
  user,         \* useState: the signed-in user, Null until getUser gives one
  items,        \* useState: the rows shown, as last fetched
  listLoading,  \* useState loading of ShoppingPlanner
  syncing,      \* useState
  param,        \* params.ingredients, Undefined when the route has none
  recipe,       \* the recipe_ingredients the discovery screen added from, if it did
  db,           \* table shopping_list_items of the user, in created_at order
  tasks,        \* the async handlers in flight, each with its position and locals
  taps,         \* number of handlers the user has started
  notices       \* the alerts shown, as (title, message) pairs

plannerVars == <<user, items, listLoading, syncing, param, recipe, db, tasks, taps, notices>>

\* ShoppingPlanner is not rendered.
PlannerIdle ==
  /\ user = Null
  /\ items = <<>>
  /\ listLoading = TRUE
  /\ syncing = FALSE
  /\ param = Undefined
  /\ recipe = [passed |-> FALSE, rs |-> <<>>]
  /\ db = <<>>
  /\ tasks = <<>>
  /\ taps = 0
  /\ notices = {}

notAnalyzer == <<concVars, screenVars, layoutVars, plannerVars>>
notConc == <<vars, screenVars, layoutVars, plannerVars>>
notScreen == <<vars, concVars, layoutVars, plannerVars>>
notLayout == <<vars, concVars, screenVars, plannerVars>>
notPlanner == <<vars, concVars, screenVars, layoutVars>>

OthersIdle == ConcIdle /\ ScreenIdle /\ LayoutIdle /\ PlannerIdle

\* No single call is made.
AnalyzerIdle ==
  /\ pc = "idle"
  /\ uri = ""
  /\ mimeArg = Undefined
  /\ mimeType = Undefined
  /\ base64Image = Undefined
  /\ sent = <<>>
  /\ response = NoResponse
  /\ outcome = Pending
  /\ log = <<>>

Init == AnalyzerIdle /\ OthersIdle

\* The promise settles: return or throw (the outer catch rethrows as is).
Settle(o) ==
  /\ outcome' = o
  /\ pc' = "done"

\* analyzeImageWithGemini(u, m) up to the first await.
Invoke(u, m) ==
  /\ pc = "idle"
  /\ uri' = u
  /\ mimeArg' = m
  /\ mimeType' = DefaultParam(m, DefaultMimeType)
  /\ log' = Append(log, "File.base64")
  /\ pc' = "readFile"
  /\ UNCHANGED <<base64Image, sent, response, outcome>>
  /\ UNCHANGED notAnalyzer

\* file.base64() resolves; the MIME check and the fetch call follow.
ReadFileResolve ==
  /\ pc = "readFile"
  /\ uri \in DOMAIN FileSystem
  /\ base64Image' = Str(Base64(FileSystem[uri]))
  /\ IF ~Includes(supportedMimeTypes, mimeType.v)
     THEN /\ Settle(Throw(UnsupportedFormat(mimeType)))
          /\ UNCHANGED <<sent, log>>
     ELSE /\ sent' = Append(sent, [method |-> "POST",
                                   body |-> RequestBody(mimeType, base64Image')])
          /\ log' = Append(log, "fetch")
          /\ pc' = "fetch"
          /\ UNCHANGED outcome
  /\ UNCHANGED <<uri, mimeArg, mimeType, response>>
  /\ UNCHANGED notAnalyzer

\* file.base64() rejects: the file cannot be read.
ReadFileReject ==
  /\ pc = "readFile"
  /\ uri \notin DOMAIN FileSystem
  /\ Settle(Throw(Err("FileReadError", <<"File cannot be read: ", uri>>)))
  /\ UNCHANGED <<uri, mimeArg, mimeType, base64Image, sent, response, log>>
  /\ UNCHANGED notAnalyzer

\* fetch resolves with a response; response.json() is called in either branch.
FetchResolve(r) ==
  /\ pc = "fetch"
  /\ response' = r
  /\ log' = Append(log, "response.json")
  /\ pc' = IF r.ok THEN "dataJson" ELSE "errorJson"
  /\ UNCHANGED <<uri, mimeArg, mimeType, base64Image, sent, outcome>>
  /\ UNCHANGED notAnalyzer

\* Mutant of FetchReject: the request is issued again after a network failure.
FetchReject_Retry ==
  /\ pc = "fetch"
  /\ sent' = Append(sent, sent[Len(sent)])
  /\ log' = Append(log, "fetch")
  /\ UNCHANGED <<pc, uri, mimeArg, mimeType, base64Image, response, outcome>>
  /\ UNCHANGED notAnalyzer

\* fetch rejects: no response was received.
FetchReject ==
  /\ pc = "fetch"
  /\ Settle(Throw(Err("NetworkError", <<"Network request failed">>)))
  /\ UNCHANGED <<uri, mimeArg, mimeType, base64Image, sent, response, log>>
  /\ UNCHANGED notAnalyzer

\* !response.ok: response.json() resolves with errorData.
ErrorJsonResolve ==
  /\ pc = "errorJson"
  /\ response.body # NotJson
  /\ Settle(UpstreamFailure(response.body, response.statusText))
  /\ UNCHANGED <<uri, mimeArg, mimeType, base64Image, sent, response, log>>
  /\ UNCHANGED notAnalyzer

\* !response.ok: response.json() rejects, the body is not JSON.
ErrorJsonReject ==
  /\ pc = "errorJson"
  /\ response.body = NotJson
  /\ Settle(Throw(Err("SyntaxError", <<"JSON Parse error">>)))
  /\ UNCHANGED <<uri, mimeArg, mimeType, base64Image, sent, response, log>>
  /\ UNCHANGED notAnalyzer

\* The library calls of the extraction, given the text found.
ExtractionLog(text) ==
  IF ~Truthy(text) THEN <<>>
  ELSE IF text.t # "string" THEN <<"console.error">>
  ELSE IF JSONParse(JsonString(text.v)).ok THEN <<"JSON.parse">>
  ELSE <<"JSON.parse", "console.error">>

\* response.ok: response.json() resolves with data; extraction follows.
DataJsonResolve ==
  /\ pc = "dataJson"
  /\ response.body # NotJson
  /\ Settle(ExtractResult(response.body))
  /\ log' = log \o ExtractionLog(FirstText(response.body))
  /\ UNCHANGED <<uri, mimeArg, mimeType, base64Image, sent, response>>
  /\ UNCHANGED notAnalyzer

\* response.ok: response.json() rejects, the body is not JSON.
DataJsonReject ==
  /\ pc = "dataJson"
  /\ response.body = NotJson
  /\ Settle(Throw(Err("SyntaxError", <<"JSON Parse error">>)))
  /\ UNCHANGED <<uri, mimeArg, mimeType, base64Image, sent, response, log>>
  /\ UNCHANGED notAnalyzer

Next ==
  \/ \E u \in Uris, m \in MimeArgs : Invoke(u, m)
  \/ ReadFileResolve
  \/ ReadFileReject
  \/ \E r \in Responses : FetchResolve(r)
  \/ FetchReject
  \/ ErrorJsonResolve
  \/ ErrorJsonReject
  \/ DataJsonResolve
  \/ DataJsonReject

Spec == Init /\ [][Next]_vars

\* ============================================================== claims
Done == pc = "done"
Supported == mimeType.t = "string" /\ Includes(supportedMimeTypes, mimeType.v)
Failed(kind) ==
  outcome.kind = "throw" /\ outcome.value.t = "error" /\ outcome.value.v.kind = kind
GotResponse == response # NoResponse
IsObject(x) == x.t = "object"
Has(o, k) == IsObject(o) /\ k \in DOMAIN o.v

\* C1: for any mediaType outside the allow-list and any image reference, the
\* call fails with UnsupportedFormat and performs no network call.
C1_UnsupportedAlwaysRejected ==
  (Done /\ ~Supported) => (Failed("UnsupportedFormat") /\ sent = <<>>)

\* The message the upstream reported, if the error body carries a non-empty one.
ReportedMessage(body) ==
  IF /\ Has(body, <<"error">>)
     /\ Has(body.v[<<"error">>], <<"message">>)
     /\ body.v[<<"error">>].v[<<"message">>].t = "string"
     /\ body.v[<<"error">>].v[<<"message">>].v # <<>>
  THEN body.v[<<"error">>].v[<<"message">>].v
  ELSE <<>>

\* C2: every non-success HTTP response, whatever its body, makes the call
\* fail with UpstreamError carrying the upstream message when there is one
\* and the status text otherwise.
C2_EveryErrorResponseIsUpstreamError ==
  (Done /\ GotResponse /\ ~response.ok) =>
     /\ Failed("UpstreamError")
     /\ outcome.value.v.message =
          <<"API Error: ">> \o
            (IF ReportedMessage(response.body) # <<>>
             THEN ReportedMessage(response.body)
             ELSE response.statusText.v)

\* The text of the first part of the first candidate, read structurally.
FirstPartText(body) ==
  IF /\ Has(body, <<"candidates">>)
     /\ body.v[<<"candidates">>].t = "array"
     /\ Len(body.v[<<"candidates">>].v) >= 1
     /\ Has(body.v[<<"candidates">>].v[1], <<"content">>)
     /\ Has(body.v[<<"candidates">>].v[1].v[<<"content">>], <<"parts">>)
  THEN LET parts == body.v[<<"candidates">>].v[1].v[<<"content">>].v[<<"parts">>]
       IN IF parts.t = "array" /\ Len(parts.v) >= 1 /\ Has(parts.v[1], <<"text">>)
          THEN parts.v[1].v[<<"text">>]
          ELSE Undefined
  ELSE Undefined

TextAbsent(body) == FirstPartText(body) \in {Undefined, Null, Str(<<>>)}
TextPresent(body) == FirstPartText(body).t = "string" /\ FirstPartText(body).v # <<>>
SuccessJson == Done /\ GotResponse /\ response.ok /\ response.body # NotJson

\* C3: on a success response only the first candidate's first text part
\* counts; when it is absent the call fails with EmptyResponse and JSON
\* extraction is never attempted, and when it is present the failure is not
\* EmptyResponse.
C3_AbsentTextIsEmptyResponse ==
  /\ (SuccessJson /\ TextAbsent(response.body)) =>
        /\ Failed("EmptyResponse")
        /\ \A i \in 1..Len(log) : log[i] # "JSON.parse"
  /\ (SuccessJson /\ TextPresent(response.body)) => ~Failed("EmptyResponse")

\* C3 witness: the first part has no text although the second part has one.
C3_Witness ==
  /\ SuccessJson
  /\ response.body = Envelope(<<Candidate(<<ImagePart, TextPart(Str(AppleText))>>)>>)
  /\ Failed("EmptyResponse")

\* Whether the text, fences stripped, holds a parseable object between its
\* first "{" and its last "}".
HasParseableObject(s) ==
  LET c == StripFences(s)
      opens == {i \in 1..Len(c) : c[i] = "{"}
      closes == {i \in 1..Len(c) : c[i] = "}"}
  IN /\ opens # {} /\ closes # {}
     /\ LET first == CHOOSE i \in opens : \A j \in opens : i <= j
            last == CHOOSE i \in closes : \A j \in closes : i >= j
        IN first < last /\ JSONParse(SubSeq(c, first, last)).ok

\* C4: a non-empty text with no parseable object between its first "{" and
\* its last "}" makes the call fail with MalformedPayload.
C4_NoObjectIsMalformedPayload ==
  (SuccessJson /\ TextPresent(response.body)
     /\ ~HasParseableObject(FirstPartText(response.body).v))
    => Failed("MalformedPayload")

Braces == {"{", "}"}
BraceFree(s) == \A i \in 1..Len(s) : s[i] \notin Braces
WrappedAs(p, n) == SuccessJson /\ FirstPartText(response.body) = Str(Wrap(p, n))

\* C5 as stated: whatever the prose around the fenced payload, the call
\* succeeds with the record it returns for the bare payload.
C5_AnyNoiseSameRecord ==
  \A p \in Payloads, n \in Noise :
    WrappedAs(p, n) => (outcome.kind = "return" /\ outcome = ParseMeal(Str(p)))

\* C5 amended: when the prose around the fenced payload contains no brace,
\* the call succeeds with the record it returns for the bare payload.
C5_BraceFreeNoiseSameRecord ==
  \A p \in Payloads, n \in Noise :
    (WrappedAs(p, n) /\ BraceFree(n[1]) /\ BraceFree(n[4]))
      => (outcome.kind = "return" /\ outcome = ParseMeal(Str(p)))

\* C5 witness: prose, an opening json fence and a closing fence around a payload.
C5_Witness ==
  \E p \in Payloads :
    /\ WrappedAs(p, << <<"Sure!", " ">>, FenceJson \o <<"\n">>, <<"\n">> \o Fence,
                      <<" ", "Enjoy", "\n">> >>)
    /\ outcome.kind = "return"
    /\ Has(outcome.value, <<"calories">>)

RecordKeys == { <<MealRecognitionPrompt.structure[i]>> :
                  i \in 1..Len(MealRecognitionPrompt.structure) }

\* C6: a text that is exactly a JSON object with the record keys is returned
\* with every field value unchanged.
C6_ExactPayloadUnchanged ==
  (SuccessJson /\ TextPresent(response.body)) =>
     LET r == JSONParse(FirstPartText(response.body).v)
     IN (r.ok /\ IsObject(r.val) /\ RecordKeys \subseteq DOMAIN r.val.v)
          => outcome = Return(r.val)

\* C7 as stated: a completed call ends either with a complete record or with
\* one of the four failures of the taxonomy.
C7_CompleteRecordOrTaxonomy ==
  Done =>
    \/ /\ outcome.kind = "return"
       /\ IsObject(outcome.value)
       /\ RecordKeys \subseteq DOMAIN outcome.value.v
    \/ /\ outcome.kind = "throw"
       /\ outcome.value.t = "error"
       /\ outcome.value.v.kind \in Taxonomy

\* C7 amended: a call is completed exactly when it has its one outcome, which
\* is either the value parsed from the reply text, returned unvalidated, or a
\* single failure: one of the four of the taxonomy, or the failure of the
\* file read, of the network request or of the decoding of the response
\* body, passed on as it is.
C7_SingleOutcome ==
  /\ Done <=> outcome.kind # "pending"
  /\ outcome.kind = "return" =>
       /\ outcome.value.t \in {"object", "string", "number"}
       /\ SuccessJson /\ Truthy(FirstPartText(response.body))
  /\ outcome.kind = "throw" =>
       /\ outcome.value.t = "error"
       /\ outcome.value.v.kind \in Taxonomy \cup LibraryFailures
       /\ Failed("FileReadError") => (uri \notin DOMAIN FileSystem /\ sent = <<>>)
       /\ Failed("NetworkError") => (~GotResponse /\ Len(sent) = 1)
       /\ (Failed("SyntaxError") \/ Failed("TypeError")) =>
            (GotResponse /\ response.body \in {NotJson, Null})

\* C7 witness: a call completed by a failure outside the taxonomy.
C7_Witness == Done /\ Failed("NetworkError") /\ Len(sent) = 1

\* C8: an invocation issues at most one request, exactly one once the media
\* type is supported and the image was read, and none otherwise; a failure
\* is never followed by another request.
C8_AtMostOneRequest ==
  /\ Len(sent) <= 1
  /\ Cardinality({i \in 1..Len(log) : log[i] = "fetch"}) = Len(sent)
  /\ pc \in {"fetch", "errorJson", "dataJson"} => Len(sent) = 1
  /\ (Done /\ Supported /\ base64Image # Undefined) => Len(sent) = 1
  /\ (Done /\ ~(Supported /\ base64Image # Undefined)) => Len(sent) = 0

\* C8 witness: a call that failed on an upstream error after its one request.
C8_Witness == Done /\ Failed("UpstreamError") /\ Len(sent) = 1

\* C9: a media type outside the allow-list is rejected before the image is
\* read.
C9_ValidatedBeforeRead ==
  (pc # "idle" /\ ~Supported) => \A i \in 1..Len(log) : log[i] # "File.base64"

\* The base64 text of each file, from RFC 4648.
ExpectedBase64 ==
  ("file:///meal.jpg" :> <<"T", "W", "F", "u">>)
    @@ ("file:///snack.png" :> <<"/", "9", "g", "=">>)

RequestHasParts(req, keys) ==
  /\ Len(req.body.contents) = 1
  /\ Len(req.body.contents[1].parts) = 2
  /\ req.body.contents[1].parts[1] = [text |-> MealRecognitionPrompt]
  /\ MealRecognitionPrompt.structure = keys
  /\ req.body.contents[1].parts[2] =
       [inline_data |->
          [mime_type |-> IF mimeArg = Undefined THEN Str(<<"image/jpeg">>) ELSE mimeArg,
           data |-> Str(ExpectedBase64[uri])]]

\* C10 as stated: the request has two parts, the prompt asking for the keys
\* name, description, calories, protein_g, carbs_g, fat_g, and the base64
\* image with the media type argument, image/jpeg when omitted.
C10_RequestAsksForName ==
  \A i \in 1..Len(sent) :
    RequestHasParts(sent[i],
       <<"name", "description", "calories", "protein_g", "carbs_g", "fat_g">>)

\* C10 amended: the same, the first key of the prompt being meal_name.
C10_RequestAsksForMealName ==
  \A i \in 1..Len(sent) :
    RequestHasParts(sent[i],
       <<"meal_name", "description", "calories", "protein_g", "carbs_g", "fat_g">>)

\* C10 witness: a request sent by a call that omitted the media type.
C10_Witness ==
  /\ Len(sent) = 1
  /\ mimeArg = Undefined
  /\ sent[1].body.contents[1].parts[2].inline_data.mime_type = Str(<<"image/jpeg">>)

\* =================================================== concurrent calls
\* Each call of the async function has its own parameters and locals; the
\* module keeps only the constants GEMINI_API_KEY and API_URL.
ConcUris == {"file:///meal.jpg", "file:///snack.png", "file:///missing.jpg"}
ConcMimeArgs == {Undefined, Str(<<"image/gif">>)}

\* fetch rejected: no reply came.
Rejected == [ok |-> FALSE, statusText |-> Str(<<>>), body |-> [t |-> "rejected", v |-> <<>>]]

\* The replies of the upstream to concurrent calls.
ConcResponses ==
  { [ok |-> TRUE, statusText |-> Str(<<"OK">>),
     body |-> Envelope(<<Candidate(<<TextPart(Str(AppleText))>>)>>)],
    [ok |-> TRUE, statusText |-> Str(<<"OK">>), body |-> Envelope(<<>>)],
    [ok |-> TRUE, statusText |-> Str(<<"OK">>), body |-> NotJson],
    [ok |-> FALSE, statusText |-> Str(<<"Too Many Requests">>),
     body |-> Obj(<<"error">> :> Obj(<<"message">> :> Str(<<"quota exceeded">>)))],
    [ok |-> FALSE, statusText |-> Str(<<"Bad Gateway">>), body |-> NotJson] }

\* The frame of call c settles.
SettleFrame(f, o) == [f EXCEPT !.outcome = o, !.pc = "done"]

\* Call c starts: analyzeImageWithGemini(u, m) up to the first await.
CInvoke(c, u, m) ==
  /\ calls[c].pc = "idle"
  /\ calls' = [calls EXCEPT ![c] =
                 [@ EXCEPT !.uri = u, !.mimeArg = m,
                           !.mimeType = DefaultParam(m, DefaultMimeType),
                           !.pc = "readFile"]]
  /\ UNCHANGED wire
  /\ UNCHANGED notConc

\* file.base64() of call c resolves; the MIME check and the fetch call follow.
CReadFileResolve(c) ==
  /\ calls[c].pc = "readFile"
  /\ calls[c].uri \in DOMAIN FileSystem
  /\ LET b64 == Str(Base64(FileSystem[calls[c].uri]))
     IN IF ~Includes(supportedMimeTypes, calls[c].mimeType.v)
        THEN /\ calls' = [calls EXCEPT ![c] =
                            SettleFrame([@ EXCEPT !.base64Image = b64],
                                        Throw(UnsupportedFormat(calls[c].mimeType)))]
             /\ UNCHANGED wire
        ELSE /\ calls' = [calls EXCEPT ![c] =
                            [@ EXCEPT !.base64Image = b64, !.pc = "fetch"]]
             /\ wire' = Append(wire,
                               [from |-> c,
                                request |-> [method |-> "POST",
                                             body |-> RequestBody(calls[c].mimeType, b64)],
                                reply |-> NoResponse])
  /\ UNCHANGED notConc

\* file.base64() of call c rejects.
CReadFileReject(c) ==
  /\ calls[c].pc = "readFile"
  /\ calls[c].uri \notin DOMAIN FileSystem
  /\ calls' = [calls EXCEPT ![c] =
                 SettleFrame(@, Throw(Err("FileReadError",
                                          <<"File cannot be read: ", calls[c].uri>>)))]
  /\ UNCHANGED wire
  /\ UNCHANGED notConc

\* The reply r is recorded against the request of call c.
Replied(c, r) ==
  [i \in 1..Len(wire) |->
     IF wire[i].from = c /\ wire[i].reply = NoResponse
     THEN [wire[i] EXCEPT !.reply = r] ELSE wire[i]]

\* Mutant of CFetchResolve: the response is kept in a variable of the module,
\* which every call that has not settled reads.
CFetchResolve_Shared(c, r) ==
  /\ calls[c].pc = "fetch"
  /\ calls' = [d \in Calls |->
                 IF d = c
                 THEN [calls[d] EXCEPT !.response = r,
                                       !.pc = IF r.ok THEN "dataJson" ELSE "errorJson"]
                 ELSE IF calls[d].pc \in {"errorJson", "dataJson"}
                 THEN [calls[d] EXCEPT !.response = r]
                 ELSE calls[d]]
  /\ wire' = Replied(c, r)
  /\ UNCHANGED notConc

\* The fetch of call c resolves with the response r.
CFetchResolve(c, r) ==
  /\ calls[c].pc = "fetch"
  /\ calls' = [calls EXCEPT ![c] =
                 [@ EXCEPT !.response = r,
                           !.pc = IF r.ok THEN "dataJson" ELSE "errorJson"]]
  /\ wire' = Replied(c, r)
  /\ UNCHANGED notConc

\* The fetch of call c rejects.
CFetchReject(c) ==
  /\ calls[c].pc = "fetch"
  /\ calls' = [calls EXCEPT ![c] =
                 SettleFrame(@, Throw(Err("NetworkError", <<"Network request failed">>)))]
  /\ wire' = Replied(c, Rejected)
  /\ UNCHANGED notConc

\* In call c response.json() rejects, in either branch: the body is not JSON.
CJsonReject(c) ==
  /\ calls[c].pc \in {"errorJson", "dataJson"}
  /\ calls[c].response.body = NotJson
  /\ calls' = [calls EXCEPT ![c] =
                 SettleFrame(@, Throw(Err("SyntaxError", <<"JSON Parse error">>)))]
  /\ UNCHANGED wire
  /\ UNCHANGED notConc

\* !response.ok in call c: response.json() resolves.
CErrorJsonResolve(c) ==
  /\ calls[c].pc = "errorJson"
  /\ calls[c].response.body # NotJson
  /\ calls' = [calls EXCEPT ![c] =
                 SettleFrame(@, UpstreamFailure(calls[c].response.body,
                                                calls[c].response.statusText))]
  /\ UNCHANGED wire
  /\ UNCHANGED notConc

\* response.ok in call c: response.json() resolves; extraction follows.
CDataJsonResolve(c) ==
  /\ calls[c].pc = "dataJson"
  /\ calls[c].response.body # NotJson
  /\ calls' = [calls EXCEPT ![c] = SettleFrame(@, ExtractResult(calls[c].response.body))]
  /\ UNCHANGED wire
  /\ UNCHANGED notConc

ConcInit == AnalyzerIdle /\ OthersIdle

ConcNext ==
  \/ \E c \in Calls, u \in ConcUris, m \in ConcMimeArgs : CInvoke(c, u, m)
  \/ \E c \in Calls : CReadFileResolve(c)
  \/ \E c \in Calls : CReadFileReject(c)
  \/ \E c \in Calls, r \in ConcResponses : CFetchResolve(c, r)
  \/ \E c \in Calls : CFetchReject(c)
  \/ \E c \in Calls : CJsonReject(c)
  \/ \E c \in Calls : CErrorJsonResolve(c)
  \/ \E c \in Calls : CDataJsonResolve(c)

allVars == <<vars, notAnalyzer>>

SpecConcurrent == ConcInit /\ [][ConcNext]_allVars

\* What the call returns or throws when it runs alone with the file system,
\* its arguments u and m, and the reply r of the upstream to its request.
AnalyzeAlone(u, m, r) ==
  LET mime == IF m = Undefined THEN Str(<<"image/jpeg">>) ELSE m
  IN IF u \notin DOMAIN FileSystem
     THEN Throw(Err("FileReadError", <<"File cannot be read: ", u>>))
     ELSE IF ~Includes(supportedMimeTypes, mime.v)
     THEN Throw(UnsupportedFormat(mime))
     ELSE IF r = Rejected
     THEN Throw(Err("NetworkError", <<"Network request failed">>))
     ELSE IF r.body = NotJson
     THEN Throw(Err("SyntaxError", <<"JSON Parse error">>))
     ELSE IF ~r.ok THEN UpstreamFailure(r.body, r.statusText)
     ELSE ExtractResult(r.body)

RequestsOf(c) == {i \in 1..Len(wire) : wire[i].from = c}

\* C11: under every interleaving, a call that has settled has the outcome
\* it has when run alone with its image, its media type and the reply to
\* its own request, and its request carries its own image and media type.
C11_CallsDoNotInterfere ==
  \A c \in Calls :
    /\ \A i \in RequestsOf(c) :
         wire[i].request.body =
           RequestBody(DefaultParam(calls[c].mimeArg, DefaultMimeType),
                       Str(ExpectedBase64[calls[c].uri]))
    /\ calls[c].pc = "done" =>
         /\ Cardinality(RequestsOf(c)) <= 1
         /\ \A i \in RequestsOf(c) :
              calls[c].outcome = AnalyzeAlone(calls[c].uri, calls[c].mimeArg, wire[i].reply)
         /\ RequestsOf(c) = {} =>
              calls[c].outcome = AnalyzeAlone(calls[c].uri, calls[c].mimeArg, Rejected)
              /\ calls[c].outcome.value.v.kind \in {"FileReadError", "UnsupportedFormat"}

\* C11 witness: two calls for different images, the second to start being
\* the first to settle, each with its own outcome.
C11_Witness ==
  /\ calls[1].pc = "done" /\ calls[2].pc = "done"
  /\ calls[1].uri # calls[2].uri
  /\ Len(wire) = 2 /\ wire[1].from = 2 /\ wire[2].from = 1
  /\ calls[1].outcome.kind = "return"
  /\ calls[2].outcome.kind = "throw"

\* ============================================== MealRecognition screen
\* The number of presses of Take Photo, Upload from Gallery and capture.
MaxPresses == 3

\* What the gallery offers: an asset has a uri and may lack a mimeType.
GalleryAssets ==
  { [uri |-> "file:///meal.jpg", mimeType |-> Undefined],
    [uri |-> "file:///snack.png", mimeType |-> Str(<<"image/png">>)],
    [uri |-> "file:///missing.jpg", mimeType |-> Str(<<"image/jpeg">>)] }

\* Where the camera writes a photo.
PhotoUris == {"file:///meal.jpg"}

\* What the upstream model sees in each image.
DishOf(u) == IF u = "file:///meal.jpg" THEN <<"Apple">> ELSE <<"Pie">>

\* The replies the upstream may give to the request for the image at u.
RepliesFor(u) ==
  { [ok |-> TRUE, statusText |-> Str(<<"OK">>),
     body |-> Envelope(<<Candidate(<<TextPart(Str(
                MealJson("meal_name", DishOf(u), <<"A", " ", "fruit">>, <<"9", "5">>)))>>)>>)],
    [ok |-> FALSE, statusText |-> Str(<<"Too Many Requests">>),
     body |-> Obj(<<"error">> :> Obj(<<"message">> :> Str(<<"quota exceeded">>)))],
    Rejected }

\* Which of the views is rendered.
CameraView == isCameraActive
LoadingView == ~isCameraActive /\ isLoading
ResultView == ~isCameraActive /\ ~isLoading /\ Truthy(imageUri) /\ Truthy(mealResult)
InitialView == ~isCameraActive /\ ~isLoading /\ ~(Truthy(imageUri) /\ Truthy(mealResult))

Running(i) == analyses[i].status = "running"
InFlight == {i \in 1..Len(analyses) : Running(i)}

\* handleImageAnalysis(u, m) up to its await.
StartAnalysis(u, m) ==
  /\ isLoading' = TRUE
  /\ mealResult' = Null
  /\ analyses' = Append(analyses, [uri |-> u, mimeType |-> m, status |-> "running"])

\* Upload from Gallery is pressed: pickImage up to its first await.
PressUpload ==
  /\ InitialView
  /\ presses < MaxPresses
  /\ presses' = presses + 1
  /\ pending' = [pending EXCEPT !.pickPerm = @ + 1]
  /\ UNCHANGED <<imageUri, mealResult, isLoading, isCameraActive, alerts, analyses>>
  /\ UNCHANGED notScreen

\* requestMediaLibraryPermissionsAsync resolves; the picker is launched if granted.
PickPermissionResolve(granted) ==
  /\ pending.pickPerm > 0
  /\ IF granted
     THEN /\ pending' = [pending EXCEPT !.pickPerm = @ - 1, !.picker = @ + 1]
          /\ UNCHANGED alerts
     ELSE /\ pending' = [pending EXCEPT !.pickPerm = @ - 1]
          /\ alerts' = Append(alerts,
                 [title |-> "Permission Required",
                  message |-> <<"Permission to access the gallery is required!">>])
  /\ UNCHANGED <<imageUri, mealResult, isLoading, isCameraActive, analyses, presses>>
  /\ UNCHANGED notScreen

\* launchImageLibraryAsync resolves with an asset: the analysis starts.
PickerResolve(asset) ==
  /\ pending.picker > 0
  /\ pending' = [pending EXCEPT !.picker = @ - 1]
  /\ imageUri' = Str(<<asset.uri>>)
  /\ StartAnalysis(asset.uri, asset.mimeType)
  /\ UNCHANGED <<isCameraActive, alerts, presses>>
  /\ UNCHANGED notScreen

\* launchImageLibraryAsync resolves canceled.
PickerCancel ==
  /\ pending.picker > 0
  /\ pending' = [pending EXCEPT !.picker = @ - 1]
  /\ UNCHANGED <<imageUri, mealResult, isLoading, isCameraActive, alerts, analyses, presses>>
  /\ UNCHANGED notScreen

\* Take Photo is pressed: openCamera up to its await.
PressTakePhoto ==
  /\ InitialView
  /\ presses < MaxPresses
  /\ presses' = presses + 1
  /\ pending' = [pending EXCEPT !.camPerm = @ + 1]
  /\ UNCHANGED <<imageUri, mealResult, isLoading, isCameraActive, alerts, analyses>>
  /\ UNCHANGED notScreen

\* requestPermission resolves.
CameraPermissionResolve(granted) ==
  /\ pending.camPerm > 0
  /\ pending' = [pending EXCEPT !.camPerm = @ - 1]
  /\ IF granted
     THEN /\ isCameraActive' = TRUE
          /\ UNCHANGED alerts
     ELSE /\ alerts' = Append(alerts,
                 [title |-> "Permission Required",
                  message |-> <<"Camera permission is required!">>])
          /\ UNCHANGED isCameraActive
  /\ UNCHANGED <<imageUri, mealResult, isLoading, analyses, presses>>
  /\ UNCHANGED notScreen

\* The capture button is pressed: capturePhoto up to its await.  The ref is
\* set while the camera view is rendered.
PressCapture ==
  /\ CameraView
  /\ presses < MaxPresses
  /\ presses' = presses + 1
  /\ pending' = [pending EXCEPT !.shots = @ + 1]
  /\ UNCHANGED <<imageUri, mealResult, isLoading, isCameraActive, alerts, analyses>>
  /\ UNCHANGED notScreen

\* Cancel is pressed in the camera view.
PressCancel ==
  /\ CameraView
  /\ isCameraActive' = FALSE
  /\ UNCHANGED <<imageUri, mealResult, isLoading, alerts, pending, analyses, presses>>
  /\ UNCHANGED notScreen

\* takePictureAsync resolves with a photo: the analysis starts.
ShotResolve(u) ==
  /\ pending.shots > 0
  /\ pending' = [pending EXCEPT !.shots = @ - 1]
  /\ isCameraActive' = FALSE
  /\ imageUri' = Str(<<u>>)
  /\ StartAnalysis(u, Str(<<"image/jpeg">>))
  /\ UNCHANGED <<alerts, presses>>
  /\ UNCHANGED notScreen

\* takePictureAsync rejects; capturePhoto catches nothing.
ShotReject ==
  /\ pending.shots > 0
  /\ pending' = [pending EXCEPT !.shots = @ - 1]
  /\ UNCHANGED <<imageUri, mealResult, isLoading, isCameraActive, alerts, analyses, presses>>
  /\ UNCHANGED notScreen

\* analyzeImageWithGemini of analysis i settles, the upstream having replied r:
\* the rest of handleImageAnalysis.
AnalysisSettle(i, r) ==
  /\ i <= Len(analyses)
  /\ Running(i)
  /\ r \in RepliesFor(analyses[i].uri)
  /\ LET o == AnalyzeAlone(analyses[i].uri, analyses[i].mimeType, r)
     IN IF o.kind = "return"
        THEN /\ mealResult' = o.value
             /\ analyses' = [analyses EXCEPT ![i].status = "returned"]
             /\ UNCHANGED alerts
        ELSE /\ alerts' = Append(alerts,
                     [title |-> "Analysis Failed", message |-> o.value.v.message])
             /\ analyses' = [analyses EXCEPT ![i].status = "failed"]
             /\ UNCHANGED mealResult
  /\ isLoading' = FALSE
  /\ UNCHANGED <<imageUri, isCameraActive, pending, presses>>
  /\ UNCHANGED notScreen

\* Try Again is pressed in the result view.
resetState ==
  /\ ResultView
  /\ imageUri' = Null
  /\ mealResult' = Null
  /\ UNCHANGED <<isLoading, isCameraActive, alerts, pending, analyses, presses>>
  /\ UNCHANGED notScreen

ScreenInit == AnalyzerIdle /\ OthersIdle

ScreenNext ==
  \/ PressUpload
  \/ \E g \in BOOLEAN : PickPermissionResolve(g)
  \/ \E a \in GalleryAssets : PickerResolve(a)
  \/ PickerCancel
  \/ PressTakePhoto
  \/ \E g \in BOOLEAN : CameraPermissionResolve(g)
  \/ PressCapture
  \/ PressCancel
  \/ \E u \in PhotoUris : ShotResolve(u)
  \/ ShotReject
  \/ \E i \in 1..MaxPresses, r \in UNION {RepliesFor(u) : u \in Uris} : AnalysisSettle(i, r)
  \/ resetState

SpecScreen == ScreenInit /\ [][ScreenNext]_allVars

\* The result the analysis of the image at u gives when it succeeds.
ResultFor(u) ==
  Obj((<<"meal_name">> :> Str(DishOf(u)))
        @@ (<<"description">> :> Str(<<"A", " ", "fruit">>))
        @@ (<<"calories">> :> Num(95)) @@ (<<"protein_g">> :> Num(0))
        @@ (<<"carbs_g">> :> Num(25)) @@ (<<"fat_g">> :> Num(0)))

FailsAt(i) == i <= Len(analyses) /\ Running(i) /\ analyses'[i].status = "failed"

\* C12: a failure of an analysis raises exactly one Analysis Failed alert,
\* leaves mealResult null, clears isLoading and starts no other analysis.
C12_FailureAlertsOnce ==
  [][\A i \in 1..MaxPresses :
       FailsAt(i) =>
         /\ Len(alerts') = Len(alerts) + 1
         /\ alerts'[Len(alerts')].title = "Analysis Failed"
         /\ alerts'[Len(alerts')].message # <<>>
         /\ mealResult' = Null
         /\ isLoading' = FALSE
         /\ Len(analyses') = Len(analyses)]_allVars

\* C13: at most one analysis is in flight at any time.
C13_OneAnalysisInFlight == Cardinality(InFlight) <= 1

\* C14: a displayed result is the analysis result of the displayed image.
C14_ResultMatchesImage ==
  ResultView => mealResult = ResultFor(imageUri.v[1])

\* ======================================================================
\* RootLayout: session bootstrap, auth listener and routing effect
\* ======================================================================

\* Auth state changes a run may see.
MaxAuthEvents == 2

\* A session object, told apart by its access token.
Session(n) == Obj((<<"access_token">> :> Num(n)))

\* Routes of the two stack screens, with the profile tab.
Paths == {"/login", "/(tabs)", "/(tabs)/profile"}

\* State after the first render and the start of the mount effect:
\* initSession awaits getSession, the listener is subscribed, and the
\* routing effect of the first render is still to run.
LayoutMounted ==
  /\ session = Null
  /\ loading = TRUE
  /\ pathname \in Paths
  /\ mounted = TRUE
  /\ initPc = "getSession"
  /\ initSessionVal = Null
  /\ initUserOk = FALSE
  /\ stored \in {Null, Session(0)}
  /\ authEvents = <<>>
  /\ emitted = 0
  /\ lastEvent = Undefined
  /\ effectDue = TRUE
  /\ nav = ""
  /\ authErrors = {}

\* React runs the effects of a commit before it renders the next update.
Flushed == ~(mounted /\ effectDue)

\* setSession(s); setLoading(FALSE), batched into one render.
SetSessionLoaded(s) ==
  /\ session' = s
  /\ loading' = FALSE
  /\ effectDue' = (effectDue \/ s # session \/ loading)

\* The auth client takes session s and notifies its subscribers.
Emit(s) ==
  /\ stored' = s
  /\ authEvents' = Append(authEvents, s)
  /\ emitted' = emitted + 1

\* await supabase.auth.getSession() resolves with the client's session.
GetSessionResolve ==
  /\ initPc = "getSession"
  /\ initSessionVal' = stored
  /\ initPc' = "getUser"
  /\ UNCHANGED <<session, loading, pathname, mounted, initUserOk, stored,
                 authEvents, emitted, lastEvent, effectDue, nav, authErrors>>
  /\ UNCHANGED notLayout

\* The server answers getUser: a user only for a session it accepts.
GetUserReply(ok) ==
  /\ initPc = "getUser"
  /\ ok => Truthy(stored)
  /\ initUserOk' = ok
  /\ initPc' = "gotUser"
  /\ UNCHANGED <<session, loading, pathname, mounted, initSessionVal, stored,
                 authEvents, emitted, lastEvent, effectDue, nav, authErrors>>
  /\ UNCHANGED notLayout

\* initSession continues after getUser (lines 35-42).
InitSessionFinish ==
  /\ initPc = "gotUser"
  /\ Flushed
  /\ initPc' = "done"
  /\ IF mounted
       THEN SetSessionLoaded(IF ~initUserOk THEN Null ELSE initSessionVal)
       ELSE UNCHANGED <<session, loading, effectDue>>
  /\ UNCHANGED <<pathname, mounted, initSessionVal, initUserOk, stored,
                 authEvents, emitted, lastEvent, nav, authErrors>>
  /\ UNCHANGED notLayout

\* The client reports a change of its own: its initial session (s = stored)
\* or a refreshed one.
AuthClientChange(s) ==
  /\ mounted
  /\ emitted < MaxAuthEvents
  /\ s = stored \/ (Truthy(stored) /\ s = Session(emitted + 1))
  /\ Emit(s)
  /\ UNCHANGED <<session, loading, pathname, mounted, initPc, initSessionVal,
                 initUserOk, lastEvent, effectDue, nav, authErrors>>
  /\ UNCHANGED notLayout

\* handleLogin with isSignUp false: signInWithPassword succeeds or fails.
handleLogin(ok) ==
  /\ mounted /\ ~loading /\ pathname = "/login"
  /\ emitted < MaxAuthEvents
  /\ IF ok THEN Emit(Session(emitted + 1)) /\ UNCHANGED authErrors
           ELSE authErrors' = authErrors \cup {"login"}
                  /\ UNCHANGED <<stored, authEvents, emitted>>
  /\ UNCHANGED <<session, loading, pathname, mounted, initPc, initSessionVal,
                 initUserOk, lastEvent, effectDue, nav>>
  /\ UNCHANGED notLayout

\* handleLogout on the profile screen: signOut succeeds or fails.
handleLogout(ok) ==
  /\ mounted /\ ~loading /\ pathname = "/(tabs)/profile"
  /\ emitted < MaxAuthEvents
  /\ IF ok THEN Emit(Null) /\ UNCHANGED authErrors
           ELSE authErrors' = authErrors \cup {"logout"}
                  /\ UNCHANGED <<stored, authEvents, emitted>>
  /\ UNCHANGED <<session, loading, pathname, mounted, initPc, initSessionVal,
                 initUserOk, lastEvent, effectDue, nav>>
  /\ UNCHANGED notLayout

\* The listener of onAuthStateChange is called with the next change.
OnAuthStateChange ==
  /\ authEvents # <<>>
  /\ Flushed
  /\ authEvents' = Tail(authEvents)
  /\ IF mounted
       THEN SetSessionLoaded(Head(authEvents)) /\ lastEvent' = Head(authEvents)
       ELSE UNCHANGED <<session, loading, effectDue, lastEvent>>
  /\ UNCHANGED <<pathname, mounted, initPc, initSessionVal, initUserOk, stored,
                 emitted, nav, authErrors>>
  /\ UNCHANGED notLayout

\* The route the routing effect asks for, nav when it asks for none.
Redirect(l, s, p) ==
  IF l THEN nav
  ELSE IF Truthy(s) THEN (IF p = "/login" THEN "/(tabs)" ELSE nav)
  ELSE (IF p # "/login" THEN "/login" ELSE nav)

\* Mutant: the routing effect without its loading guard.
RoutingEffect_NoLoadingGuard ==
  /\ mounted /\ effectDue
  /\ effectDue' = FALSE
  /\ nav' = Redirect(FALSE, session, pathname)
  /\ UNCHANGED <<session, loading, pathname, mounted, initPc, initSessionVal,
                 initUserOk, stored, authEvents, emitted, lastEvent, authErrors>>
  /\ UNCHANGED notLayout

\* The routing effect (lines 63-77) runs after a render that changed
\* session, loading or pathname.
RoutingEffect ==
  /\ mounted /\ effectDue
  /\ effectDue' = FALSE
  /\ nav' = Redirect(loading, session, pathname)
  /\ UNCHANGED <<session, loading, pathname, mounted, initPc, initSessionVal,
                 initUserOk, stored, authEvents, emitted, lastEvent, authErrors>>
  /\ UNCHANGED notLayout

\* The router shows the route of router.replace; usePathname follows.
NavigationCommit ==
  /\ nav # ""
  /\ Flushed
  /\ pathname' = nav
  /\ nav' = ""
  /\ effectDue' = (effectDue \/ nav # pathname)
  /\ UNCHANGED <<session, loading, mounted, initPc, initSessionVal, initUserOk,
                 stored, authEvents, emitted, lastEvent, authErrors>>
  /\ UNCHANGED notLayout

\* The user, or a link, moves the rendered stack to route p.
Navigate(p) ==
  /\ mounted /\ ~loading /\ Flushed /\ nav = ""
  /\ p # pathname
  /\ pathname' = p
  /\ effectDue' = TRUE
  /\ UNCHANGED <<session, loading, mounted, initPc, initSessionVal, initUserOk,
                 stored, authEvents, emitted, lastEvent, nav, authErrors>>
  /\ UNCHANGED notLayout

\* Cleanup of the mount effect (lines 57-60).
Unmount ==
  /\ mounted
  /\ mounted' = FALSE
  /\ UNCHANGED <<session, loading, pathname, initPc, initSessionVal, initUserOk,
                 stored, authEvents, emitted, lastEvent, effectDue, nav, authErrors>>
  /\ UNCHANGED notLayout

LayoutInit == AnalyzerIdle /\ ConcIdle /\ ScreenIdle /\ PlannerIdle /\ LayoutMounted

LayoutNext ==
  \/ GetSessionResolve
  \/ \E ok \in BOOLEAN : GetUserReply(ok)
  \/ InitSessionFinish
  \/ \E s \in {Null} \cup {Session(n) : n \in 0..MaxAuthEvents} : AuthClientChange(s)
  \/ \E ok \in BOOLEAN : handleLogin(ok)
  \/ \E ok \in BOOLEAN : handleLogout(ok)
  \/ OnAuthStateChange
  \/ RoutingEffect
  \/ NavigationCommit
  \/ \E p \in Paths : Navigate(p)
  \/ Unmount

SpecLayout == LayoutInit /\ [][LayoutNext]_allVars

\* React runs a due effect, and the router completes a replace.
SpecLayoutFair ==
  SpecLayout /\ WF_allVars(RoutingEffect) /\ WF_allVars(NavigationCommit)

\* The route agrees with the session RootLayout holds.
Agree == IF Truthy(session) THEN pathname # "/login" ELSE pathname = "/login"

Settled == mounted /\ ~loading /\ ~effectDue /\ nav = ""

RedirectIssued == nav' # "" /\ nav' # nav

\* C15: once loading is over the route comes to agree with the session
\* (to /login without a session, away from /login with one), every redirect
\* goes where the session says, and none is issued while loading.
C15_RouteFollowsSession ==
  /\ [](Settled => Agree)
  /\ [][RedirectIssued =>
          /\ ~loading
          /\ nav' = (IF Truthy(session) THEN "/(tabs)" ELSE "/login")
          /\ nav' # pathname]_allVars
  /\ ((mounted /\ ~loading) ~> (Agree \/ ~mounted))

\* A successful logout on the profile screen has been delivered and the
\* redirect to /login is issued.
C15_Witness ==
  /\ nav = "/login" /\ pathname = "/(tabs)/profile"
  /\ ~loading /\ Truthy(initSessionVal) /\ stored = Null /\ lastEvent = Null

\* C16: when initSession has finished and every auth change is delivered,
\* the session RootLayout holds is that of the most recent auth change.
C16_SessionIsLatestEvent ==
  (mounted /\ initPc = "done" /\ authEvents = <<>> /\ lastEvent # Undefined)
    => session = lastEvent

\* ======================================================================
\* Discovery screen: the ingredients route parameter
\* ======================================================================

\* a ?? b
Nullish(a, b) == IF a.t \in {"undefined", "null"} THEN b ELSE a

\* recipe_ingredients rows as the discovery query returns them.
RecipeIngredient(name, quantity, unit) ==
  Obj((<<"ingredients">> :> name) @@ (<<"quantity">> :> quantity) @@ (<<"unit">> :> unit))

IngredientRef(name) == Obj((<<"name_en">> :> Str(name)))

\* Recipes the user may add from: without ingredients, with one complete
\* ingredient, with two of which the second lacks quantity, unit and name.
Recipes ==
  { <<>>,
    << RecipeIngredient(IngredientRef(<<"Tomato">>), Str(<<"2">>), Str(<<"pcs">>)) >>,
    << RecipeIngredient(IngredientRef(<<"Salt">>), Null, Null),
       RecipeIngredient(Null, Str(<<"1">>), Str(<<"cup">>)) >> }

\* safeGetIngredients(recipe), recipe.recipe_ingredients being rs.
safeGetIngredients(rs) ==
  [i \in 1..Len(rs) |->
     [name |-> Nullish(OptProp(GetProp(rs[i], <<"ingredients">>), <<"name_en">>), Str(<<"Unknown">>)),
      quantity |-> Nullish(GetProp(rs[i], <<"quantity">>), Str(<<"-">>)),
      unit |-> Nullish(GetProp(rs[i], <<"unit">>), Str(<<>>))]]

\* JSON.stringify of one {name, quantity, unit} object of strings.
StringifyIngredient(g) ==
  <<"{">> \o StrLit(<<"name">>) \o <<":">> \o StrLit(g.name.v) \o <<",">>
    \o StrLit(<<"quantity">>) \o <<":">> \o StrLit(g.quantity.v) \o <<",">>
    \o StrLit(<<"unit">>) \o <<":">> \o StrLit(g.unit.v) \o <<"}">>

RECURSIVE StringifyElements(_, _)
StringifyElements(gs, i) ==
  IF i > Len(gs) THEN <<>>
  ELSE (IF i > 1 THEN <<",">> ELSE <<>>) \o StringifyIngredient(gs[i])
         \o StringifyElements(gs, i + 1)

\* JSON.stringify(ingredients)
JSONStringify(gs) == <<"[">> \o StringifyElements(gs, 1) \o <<"]">>

\* The characters encodeURIComponent escapes, with their escapes.
Escapes ==
  ("[" :> "%5B") @@ ("]" :> "%5D") @@ ("{" :> "%7B") @@ ("}" :> "%7D")
    @@ (QUOTE :> "%22") @@ (":" :> "%3A") @@ ("," :> "%2C") @@ (" " :> "%20")

encodeURIComponent(s) ==
  [i \in 1..Len(s) |-> IF s[i] \in DOMAIN Escapes THEN Escapes[s[i]] ELSE s[i]]

Unescape(c) ==
  IF \E k \in DOMAIN Escapes : Escapes[k] = c
  THEN CHOOSE k \in DOMAIN Escapes : Escapes[k] = c
  ELSE c

decodeURIComponent(s) == [i \in 1..Len(s) |-> Unescape(s[i])]

\* The value of the query parameter in the route that addToShoppingPlanner
\* pushes; the router hands it on as written or already decoded.
RouteParam(rs, routerDecodes) ==
  IF routerDecodes
  THEN Str(decodeURIComponent(encodeURIComponent(JSONStringify(safeGetIngredients(rs)))))
  ELSE Str(encodeURIComponent(JSONStringify(safeGetIngredients(rs))))

\* s.split(c), from position i on, cur being the piece collected so far.
RECURSIVE SplitFrom(_, _, _, _)
SplitFrom(s, c, i, cur) ==
  IF i > Len(s) THEN <<cur>>
  ELSE IF s[i] = c THEN <<cur>> \o SplitFrom(s, c, i + 1, <<>>)
  ELSE SplitFrom(s, c, i + 1, Append(cur, s[i]))

Split(s, c) == SplitFrom(s, c, 1, <<>>)

\* arr.filter(keep), keep being a set of values
RECURSIVE FilterIn(_, _)
FilterIn(arr, keep) ==
  IF arr = <<>> THEN <<>>
  ELSE (IF Head(arr) \in keep THEN <<Head(arr)>> ELSE <<>>) \o FilterIn(Tail(arr), keep)

\* Lines 292-295: the ingredient names ShoppingPlanner reads from the parameter.
ParamIngredients(p) ==
  LET pieces == Split(decodeURIComponent(p.v), ",")
      trimmed == [i \in 1..Len(pieces) |-> Trim(pieces[i])]
  IN FilterIn(trimmed, {trimmed[i] : i \in {j \in 1..Len(pieces) : trimmed[j] # <<>>}})

\* ======================================================================
\* ShoppingPlanner: mount effect, list fetches and the list handlers
\* ======================================================================

\* Handlers the user starts in a run.
MaxTaps == 2

\* Upper-case words of the names used, with their lower-case forms.
LowerCase ==
  ("Salt" :> "salt") @@ ("Rice" :> "rice") @@ ("Tomato" :> "tomato")
    @@ ("Unknown" :> "unknown")

\* s.toLowerCase()
ToLowerCase(s) ==
  [i \in 1..Len(s) |-> IF s[i] \in DOMAIN LowerCase THEN LowerCase[s[i]] ELSE s[i]]

\* A row of shopping_list_items: its position in db is its id; flips and
\* original record the successful toggle updates and the first checked value.
Row(name, checked) ==
  [name |-> name, checked |-> checked, deleted |-> FALSE, flips |-> 0, original |-> checked]

\* The table when the screen opens: empty, or holding Salt from before.
InitialTables == { <<>>, <<Row(<<"Salt">>, FALSE)>> }

\* select('*').eq('user_id', userId).order('created_at')
RECURSIVE SelectFrom(_, _)
SelectFrom(t, i) ==
  IF i > Len(t) THEN <<>>
  ELSE (IF t[i].deleted THEN <<>>
        ELSE <<[id |-> i, name |-> t[i].name, checked |-> t[i].checked]>>)
         \o SelectFrom(t, i + 1)

Select(t) == SelectFrom(t, 1)

\* What getUser may give.
Users == {Null, Str(<<"u1">>)}

\* meal_plan rows as the select of syncFromRecipes returns them: per plan the
\* name_en of the recipe's ingredients.
MealPlans ==
  { << <<Str(<<"Rice">>), Null>> >>,
    << <<Str(<<"Salt">>), Str(<<"Rice">>)>>, <<Str(<<"salt">>)>> >> }

\* Lines 396-401: the names collected from the plans.
RECURSIVE CollectNames(_)
CollectNames(names) ==
  IF names = <<>> THEN <<>>
  ELSE (IF Truthy(Head(names)) THEN <<Head(names).v>> ELSE <<>>) \o CollectNames(Tail(names))

RECURSIVE AllIngredients(_)
AllIngredients(data) ==
  IF data = <<>> THEN <<>>
  ELSE CollectNames(Head(data)) \o AllIngredients(Tail(data))

\* Texts of the new-item input when the add button is pressed.
NewItemTexts == { <<" ">>, <<"Salt">> }

\* Lines 325-326: the ingredients not among the names of the items the
\* closure of addIngredientsFromParams holds.
NewOnes(ingredients, closureItems) ==
  LET existingNames == [i \in 1..Len(closureItems) |-> ToLowerCase(closureItems[i].name)]
  IN FilterIn(ingredients,
              {ingredients[i] : i \in {j \in 1..Len(ingredients) :
                                         ~Includes(existingNames, ToLowerCase(ingredients[j]))}})

Task(kind, pcOf, id, checked, names, closureItems) ==
  [kind |-> kind, pc |-> pcOf, id |-> id, checked |-> checked, names |-> names,
   seen |-> closureItems]

Remove(seq, i) == SubSeq(seq, 1, i - 1) \o SubSeq(seq, i + 1, Len(seq))

At(i, kind, pcOf) == i <= Len(tasks) /\ tasks[i].kind = kind /\ tasks[i].pc = pcOf

\* State after the first render of a screen opened with or without the
\* parameter of the discovery screen: the mount effect awaits getUser, its
\* closure holds the items of the first render.
PlannerMounted ==
  /\ user = Null
  /\ items = <<>>
  /\ listLoading = TRUE
  /\ syncing = FALSE
  /\ recipe \in {[passed |-> FALSE, rs |-> <<>>]} \cup [passed : {TRUE}, rs : Recipes]
  /\ \E routerDecodes \in BOOLEAN :
       param = IF recipe.passed THEN RouteParam(recipe.rs, routerDecodes) ELSE Undefined
  /\ db \in InitialTables
  /\ tasks = <<Task("mount", "getUser", 0, FALSE, <<>>, <<>>)>>
  /\ taps = 0
  /\ notices = {}

\* Lines 281-287: getUser resolves; without a user the effect returns.
MountGetUser(i, u) ==
  /\ At(i, "mount", "getUser")
  /\ IF ~Truthy(u)
       THEN tasks' = Remove(tasks, i) /\ UNCHANGED <<user, listLoading>>
       ELSE /\ user' = u
            /\ listLoading' = TRUE
            /\ tasks' = [tasks EXCEPT ![i].pc = "fetch"]
  /\ UNCHANGED <<items, syncing, param, recipe, db, taps, notices>>
  /\ UNCHANGED notPlanner

\* fetchItems resolves (lines 314-320) and its caller continues: the mount
\* effect with the parameter (lines 290-301) or the cleanup of the route
\* (line 299), syncFromRecipes with setSyncing(false), the others end.
FetchItemsResolve(i, ok) ==
  LET t == tasks[i]
      ing == IF Truthy(param) THEN ParamIngredients(param) ELSE <<>>
      newOnes == NewOnes(ing, t.seen)
  IN
  /\ i <= Len(tasks)
  /\ t.pc \in {"fetch", "refetch"}
  /\ items' = IF ok THEN Select(db) ELSE items
  /\ notices' = IF ok THEN notices
                ELSE notices \cup {<<"Error", "Failed to load shopping list">>}
  /\ listLoading' = FALSE
  /\ IF t.kind = "mount" /\ t.pc = "fetch" /\ ing # <<>> /\ newOnes # <<>>
       THEN tasks' = [tasks EXCEPT ![i].pc = "insert", ![i].names = newOnes]
       ELSE tasks' = Remove(tasks, i)
  /\ param' = IF t.kind = "mount" /\ (t.pc = "refetch" \/ (ing # <<>> /\ newOnes = <<>>))
              THEN Undefined ELSE param
  /\ syncing' = IF t.kind = "sync" THEN FALSE ELSE syncing
  /\ UNCHANGED <<user, recipe, db, taps>>
  /\ UNCHANGED notPlanner

\* The rows inserted for names.
NewRows(names) == [k \in 1..Len(names) |-> Row(names[k], FALSE)]

\* Lines 329-344: the insert of addIngredientsFromParams resolves.
InsertResolve(i, ok) ==
  /\ i <= Len(tasks)
  /\ tasks[i].kind \in {"mount", "sync"} /\ tasks[i].pc = "insert"
  /\ IF ok
       THEN /\ db' = db \o NewRows(tasks[i].names)
            /\ notices' = notices \cup {<<"Success", Len(tasks[i].names)>>}
            /\ listLoading' = TRUE
            /\ tasks' = [tasks EXCEPT ![i].pc = "refetch"]
            /\ UNCHANGED <<param, syncing>>
       ELSE /\ notices' = notices \cup {<<"Error", "Could not add ingredients">>}
            /\ tasks' = Remove(tasks, i)
            /\ param' = IF tasks[i].kind = "mount" THEN Undefined ELSE param
            /\ syncing' = IF tasks[i].kind = "sync" THEN FALSE ELSE syncing
            /\ UNCHANGED <<db, listLoading>>
  /\ UNCHANGED <<user, items, recipe, taps>>
  /\ UNCHANGED notPlanner

\* The list is rendered, so its buttons can be pressed.
ListShown == ~listLoading /\ taps < MaxTaps

\* syncFromRecipes is pressed (lines 385-392); its closure holds the items
\* of the render.
syncFromRecipes ==
  /\ ListShown /\ ~syncing
  /\ taps' = taps + 1
  /\ IF ~Truthy(user)
       THEN UNCHANGED <<syncing, tasks>>
       ELSE /\ syncing' = TRUE
            /\ tasks' = Append(tasks, Task("sync", "select", 0, FALSE, <<>>, items))
  /\ UNCHANGED <<user, items, listLoading, param, recipe, db, notices>>
  /\ UNCHANGED notPlanner

\* The meal_plan select resolves (lines 394-409).
SyncSelectResolve(i, data, ok) ==
  LET newOnes == NewOnes(AllIngredients(data), tasks[i].seen) IN
  /\ At(i, "sync", "select")
  /\ IF ok /\ newOnes # <<>>
       THEN /\ tasks' = [tasks EXCEPT ![i].pc = "insert", ![i].names = newOnes]
            /\ UNCHANGED <<syncing, notices>>
       ELSE /\ tasks' = Remove(tasks, i)
            /\ syncing' = FALSE
            /\ notices' = IF ok THEN notices
                          ELSE notices \cup {<<"Error", "Failed to sync from recipes">>}
  /\ UNCHANGED <<user, items, listLoading, param, recipe, db, taps>>
  /\ UNCHANGED notPlanner

\* The row k of the list is tapped: toggleItem(item.id, item.checked) with
\* the values of the render (line 466).
toggleItem(k) ==
  /\ ListShown
  /\ k \in 1..Len(items)
  /\ taps' = taps + 1
  /\ tasks' = Append(tasks, Task("toggle", "update", items[k].id, items[k].checked, <<>>, <<>>))
  /\ UNCHANGED <<user, items, listLoading, syncing, param, recipe, db, notices>>
  /\ UNCHANGED notPlanner

\* The update of toggleItem resolves (lines 367-373).
ToggleResolve(i, ok) ==
  /\ At(i, "toggle", "update")
  /\ IF ok
       THEN /\ db' = [db EXCEPT ![tasks[i].id].checked = ~tasks[i].checked,
                                ![tasks[i].id].flips = @ + 1]
            /\ listLoading' = TRUE
            /\ tasks' = [tasks EXCEPT ![i].pc = "fetch"]
            /\ UNCHANGED notices
       ELSE /\ notices' = notices \cup {<<"Error", "Failed to update item">>}
            /\ tasks' = Remove(tasks, i)
            /\ UNCHANGED <<db, listLoading>>
  /\ UNCHANGED <<user, items, syncing, param, recipe, taps>>
  /\ UNCHANGED notPlanner

\* The add button is pressed with text in the input (lines 348-356).
addItem(text) ==
  /\ ListShown
  /\ taps' = taps + 1
  /\ IF Trim(text) = <<>> \/ ~Truthy(user)
       THEN UNCHANGED tasks
       ELSE tasks' = Append(tasks, Task("add", "update", 0, FALSE, <<Trim(text)>>, <<>>))
  /\ UNCHANGED <<user, items, listLoading, syncing, param, recipe, db, notices>>
  /\ UNCHANGED notPlanner

\* The insert of addItem resolves (lines 358-362).
AddResolve(i, ok) ==
  /\ At(i, "add", "update")
  /\ IF ok
       THEN /\ db' = db \o NewRows(tasks[i].names)
            /\ listLoading' = TRUE
            /\ tasks' = [tasks EXCEPT ![i].pc = "fetch"]
            /\ UNCHANGED notices
       ELSE /\ notices' = notices \cup {<<"Error", "Could not add item">>}
            /\ tasks' = Remove(tasks, i)
            /\ UNCHANGED <<db, listLoading>>
  /\ UNCHANGED <<user, items, syncing, param, recipe, taps>>
  /\ UNCHANGED notPlanner

\* The trash icon of row k is pressed (line 480).
deleteItem(k) ==
  /\ ListShown
  /\ k \in 1..Len(items)
  /\ taps' = taps + 1
  /\ tasks' = Append(tasks, Task("delete", "update", items[k].id, FALSE, <<>>, <<>>))
  /\ UNCHANGED <<user, items, listLoading, syncing, param, recipe, db, notices>>
  /\ UNCHANGED notPlanner

\* The delete of deleteItem resolves (lines 378-380).
DeleteResolve(i, ok) ==
  /\ At(i, "delete", "update")
  /\ IF ok
       THEN /\ db' = [db EXCEPT ![tasks[i].id].deleted = TRUE]
            /\ listLoading' = TRUE
            /\ tasks' = [tasks EXCEPT ![i].pc = "fetch"]
            /\ UNCHANGED notices
       ELSE /\ notices' = notices \cup {<<"Error", "Failed to delete item">>}
            /\ tasks' = Remove(tasks, i)
            /\ UNCHANGED <<db, listLoading>>
  /\ UNCHANGED <<user, items, syncing, param, recipe, taps>>
  /\ UNCHANGED notPlanner

\* Rows of the list the user reaches for, and most handlers in flight.
MaxRows == 3
MaxTasks == MaxTaps + 1

PlannerInit == AnalyzerIdle /\ ConcIdle /\ ScreenIdle /\ LayoutIdle /\ PlannerMounted

PlannerNext ==
  \/ \E i \in 1..MaxTasks, u \in Users : MountGetUser(i, u)
  \/ \E i \in 1..MaxTasks, ok \in BOOLEAN : FetchItemsResolve(i, ok)
  \/ \E i \in 1..MaxTasks, ok \in BOOLEAN : InsertResolve(i, ok)
  \/ syncFromRecipes
  \/ \E i \in 1..MaxTasks, data \in MealPlans, ok \in BOOLEAN : SyncSelectResolve(i, data, ok)
  \/ \E k \in 1..MaxRows : toggleItem(k)
  \/ \E i \in 1..MaxTasks, ok \in BOOLEAN : ToggleResolve(i, ok)
  \/ \E text \in NewItemTexts : addItem(text)
  \/ \E i \in 1..MaxTasks, ok \in BOOLEAN : AddResolve(i, ok)
  \/ \E k \in 1..MaxRows : deleteItem(k)
  \/ \E i \in 1..MaxTasks, ok \in BOOLEAN : DeleteResolve(i, ok)

SpecPlanner == PlannerInit /\ [][PlannerNext]_allVars

\* The names, in lower case, of the rows on the user's list in the backend.
NamesOnList == {ToLowerCase(db[r].name) : r \in {q \in 1..Len(db) : ~db[q].deleted}}

\* The insert of addIngredientsFromParams of task i takes effect in this step.
InsertsNow(i) ==
  /\ i <= Len(tasks) /\ i <= Len(tasks')
  /\ tasks[i].kind \in {"mount", "sync"}
  /\ tasks[i].pc = "insert" /\ tasks'[i].pc = "refetch"

\* C17: addIngredientsFromParams inserts no name that equals, ignoring case,
\* the name of an item on the list or of another ingredient of the same call.
C17_NoDuplicateInserted ==
  [][\A i \in 1..MaxTasks :
       InsertsNow(i) =>
         LET names == tasks[i].names IN
         /\ \A a \in 1..Len(names) : ToLowerCase(names[a]) \notin NamesOnList
         /\ \A a, b \in 1..Len(names) :
              a # b => ToLowerCase(names[a]) # ToLowerCase(names[b])]_allVars

\* The ingredient names of the recipe the discovery screen passed.
RecipeNames ==
  LET gs == safeGetIngredients(recipe.rs) IN [k \in 1..Len(gs) |-> gs[k].name.v]

\* C18: for a recipe passed by the discovery screen with none of its names
\* on the list, the names the mount effect is about to insert are exactly
\* the ingredient names of the recipe.
C18_PassedNamesAreInserted ==
  \A i \in 1..MaxTasks :
    (/\ At(i, "mount", "insert")
     /\ recipe.passed /\ Len(RecipeNames) > 0
     /\ \A k \in 1..Len(RecipeNames) : ToLowerCase(RecipeNames[k]) \notin NamesOnList)
      => tasks[i].names = RecipeNames

\* C19: an item toggled twice, with no toggle of it in flight, has its
\* original checked value in the backend.
C19_TwoTogglesRestore ==
  \A id \in 1..Len(db) :
    (/\ db[id].flips = 2
     /\ ~\E i \in 1..Len(tasks) : tasks[i].kind = "toggle" /\ tasks[i].id = id)
      => db[id].checked = db[id].original

\* C20: when the mount effect and every handler have finished, loading is false.
C20_LoadingEnds == tasks = <<>> => ~listLoading

====
